---- MODULE Spec2Model ----
(***************************************************************************)
(* Model of the PDF password server (src/server.js).                       *)
(*                                                                         *)
(* The source file holds two versions of server.js (lines 1-142 and lines  *)
(* 146-385) followed by the README (lines 389-827).  `variant` says which  *)
(* version runs.  Strings that the code inspects character by character    *)
(* (file names) are sequences of one-character strings; times are          *)
(* milliseconds as returned by Date.now().                                 *)
(***************************************************************************)
EXTENDS Integers, Sequences, FiniteSets, TLC

VARIABLES
  variant,    \* 1: server.js lines 1-142, 2: server.js lines 146-385
  env,        \* process.env: PDF_PASSWORD, SERVE_PNGS_FOR_IOS
  now,        \* Date.now()
  ticks,      \* number of clock advances between requests so far
  hits,       \* the two rate limiters' stores: limiter -> ip -> window
  issued,     \* tokens returned by successful logins so far (held by clients)
  pdfFiles,   \* names present in <__dirname>/pdfs
  pngsExists, \* whether <__dirname>/pngs exists
  pngsList,   \* fs.readdirSync(<__dirname>/pngs), in listing order
  unreadable, \* paths that exist but whose open fails (directory, EACCES, EIO)
  streams,    \* read streams created and piped, whose open is still pending
  crashed,    \* the process died of an unhandled 'error' event
  traffic,    \* requests between the middlewares of their route, and a tally
  last        \* the request handled last, its response and what it went through

vars == <<variant, env, now, ticks, hits, issued, pdfFiles, pngsExists,
          pngsList, unreadable, streams, crashed, traffic, last>>

(***************************************************************************)
(* Bounds of the exploration.                                              *)
(***************************************************************************)
MaxSkew == 1          \* ms that may pass between two Date.now() of one handler
MaxTicks == 2         \* clock advances between requests
MaxOver == 1          \* requests explored beyond a limiter's ceiling
MaxTokens == 2        \* tokens issued
MaxForged == 1        \* issued tokens that clients alter and splice
MaxStreams == 1       \* streams whose open is pending at once
MaxReqs == 3          \* requests per client where the limiters are not the subject
MaxTokenReqs == 2     \* requests per general window where tokens are the subject
MaxPrefixLen == 3     \* characters before the ending of an enumerated file name
MaxList == 3          \* entries of the pngs directory
MaxInflight == 2      \* requests that are between middlewares at once

(***************************************************************************)
(* Program constants.                                                      *)
(***************************************************************************)
GeneralWindowMs == 900000
GeneralMax == 100
PdfWindowMs == 300000
PdfMaxV1 == 10
PdfMaxV2 == 100
TokenMaxAgeMs == 3600000
ExpiresInSec == 3600
MsPerSec == 1000
AdvertisedExpiresIn == 3600
ReadmePdfMax == 10

JWT_SECRET == "jwt-secret"
AttackerKey == "attacker-key"

(***************************************************************************)
(* Character sequences.                                                    *)
(***************************************************************************)
Lower == {"a", "b", "c", "d", "e", "f", "g", "h", "i", "j", "k", "l", "m",
          "n", "o", "p", "q", "r", "s", "t", "u", "v", "w", "x", "y", "z"}
Upper == {"A", "B", "C", "D", "E", "F", "G", "H", "I", "J", "K", "L", "M",
          "N", "O", "P", "Q", "R", "S", "T", "U", "V", "W", "X", "Y", "Z"}
Digit == {"0", "1", "2", "3", "4", "5", "6", "7", "8", "9"}

DigitVal(c) ==
  CASE c = "0" -> 0 [] c = "1" -> 1 [] c = "2" -> 2 [] c = "3" -> 3
    [] c = "4" -> 4 [] c = "5" -> 5 [] c = "6" -> 6 [] c = "7" -> 7
    [] c = "8" -> 8 [] c = "9" -> 9

\* s.startsWith(p)
StartsWith(s, p) ==
  /\ Len(p) <= Len(s)
  /\ SubSeq(s, 1, Len(p)) = p

\* s.endsWith(p)
EndsWith(s, p) ==
  /\ Len(p) <= Len(s)
  /\ SubSeq(s, Len(s) - Len(p) + 1, Len(s)) = p

\* s.indexOf(p), 1-based; 0 when p does not occur
IndexOf(s, p) ==
  LET at == {i \in 1..(Len(s) - Len(p) + 1) : SubSeq(s, i, i + Len(p) - 1) = p}
  IN IF at = {} THEN 0 ELSE CHOOSE i \in at : \A j \in at : i <= j

\* s.replace(p, ''): a string pattern replaces its FIRST occurrence only
ReplaceFirstWithEmpty(s, p) ==
  LET i == IndexOf(s, p)
  IN IF i = 0 THEN s
     ELSE SubSeq(s, 1, i - 1) \o SubSeq(s, i + Len(p), Len(s))

DotPdf == <<".", "p", "d", "f">>
DotPng == <<".", "p", "n", "g">>
PdfsDir == <<"p", "d", "f", "s">>
PngsDir == <<"p", "n", "g", "s">>
Dirname == <<<<"a", "p", "p">>>>   \* __dirname, as a list of path segments

(***************************************************************************)
(* File-name validation and path resolution (both fetch routes).           *)
(***************************************************************************)
\* the character class [a-zA-Z0-9\-_\.]
AllowedChar == Lower \cup Upper \cup Digit \cup {"-", "_", "."}

\* a plausible slip: the regular expression without its leading ^
FilenameMatchesUnanchored(name, dotExt) ==
  /\ Len(name) > Len(dotExt)
  /\ EndsWith(name, dotExt)
  /\ name[Len(name) - Len(dotExt)] \in AllowedChar

\* filename.match(/^[a-zA-Z0-9\-_\.]+\.pdf$/), resp. \.png$
FilenameMatches(name, dotExt) ==
  /\ Len(name) > Len(dotExt)
  /\ EndsWith(name, dotExt)
  /\ \A i \in 1..(Len(name) - Len(dotExt)) : name[i] \in AllowedChar

RECURSIVE SplitSlash(_)
\* the segments of a POSIX path string
SplitSlash(s) ==
  LET i == IndexOf(s, <<"/">>)
  IN IF i = 0 THEN <<s>>
     ELSE <<SubSeq(s, 1, i - 1)>> \o SplitSlash(SubSeq(s, i + 1, Len(s)))

RECURSIVE Normalize(_, _)
\* path normalisation of an absolute path: "" and "." vanish, ".." pops
Normalize(stack, segs) ==
  IF segs = <<>> THEN stack
  ELSE LET h == Head(segs)
       IN IF h = <<>> \/ h = <<".">>
            THEN Normalize(stack, Tail(segs))
          ELSE IF h = <<".", ".">>
            THEN Normalize(IF stack = <<>> THEN <<>>
                           ELSE SubSeq(stack, 1, Len(stack) - 1), Tail(segs))
          ELSE Normalize(Append(stack, h), Tail(segs))

\* path.join(__dirname, sub, filename)
PathJoin(dir, sub, filename) ==
  Normalize(<<>>, dir \o <<sub>> \o SplitSlash(filename))

\* the paths that exist on disk
AllPaths ==
  {SubSeq(Dirname, 1, k) : k \in 0..Len(Dirname)}
    \cup {Dirname \o <<PdfsDir>>}
    \cup {Dirname \o <<PdfsDir, n>> : n \in pdfFiles}
    \cup (IF pngsExists
            THEN {Dirname \o <<PngsDir>>}
                   \cup {Dirname \o <<PngsDir, pngsList[i]>> : i \in 1..Len(pngsList)}
            ELSE {})

\* fs.existsSync(path): never throws
ExistsSync(path) == path \in AllPaths

(***************************************************************************)
(* Tokens (jsonwebtoken, HS256).  A signature is a value that only the     *)
(* holder of the key can compute from the payload.                         *)
(***************************************************************************)
Sign(payload, key) == [p |-> payload, k |-> key]

NoPayload == [authenticated |-> FALSE, timestamp |-> 0, iat |-> 0, exp |-> 0]
\* no token in the request: header absent (or empty once 'Bearer ' is removed)
\* and no ?token=
MissingToken ==
  [form |-> "undefined", payload |-> NoPayload, sig |-> Sign(NoPayload, "none")]
\* a string that is not of the form header.payload.signature
MalformedToken ==
  [form |-> "malformed", payload |-> NoPayload, sig |-> Sign(NoPayload, "none")]

\* jwt.sign({authenticated: true, timestamp: ts}, key, {expiresIn: '1h'}) called
\* when the clock reads `clock`: iat is in whole seconds, exp = iat + 3600
JwtSign(ts, key, clock) ==
  LET iat == clock \div MsPerSec
      payload == [authenticated |-> TRUE, timestamp |-> ts, iat |-> iat,
                  exp |-> iat + ExpiresInSec]
  IN [form |-> "jwt", payload |-> payload, sig |-> Sign(payload, key)]

\* a plausible slip: the payload is decoded without checking the signature
\* (jwt.decode in place of jwt.verify)
JwtDecodeOnly(tok, key, clock) ==
  IF tok.form # "jwt" THEN "Malformed"
  ELSE IF clock \div MsPerSec >= tok.payload.exp THEN "JwtExpired"
  ELSE "ok"

\* jwt.verify(token, key) when the clock reads `clock`: "ok" when it returns the
\* payload, else the error it throws
JwtVerify(tok, key, clock) ==
  IF tok.form # "jwt" THEN "Malformed"
  ELSE IF tok.sig # Sign(tok.payload, key) THEN "BadSignature"
  ELSE IF clock \div MsPerSec >= tok.payload.exp THEN "JwtExpired"
  ELSE "ok"

\* req.headers.authorization?.replace('Bearer ', '') || req.query.token
TokenFromRequest(authorization, queryToken) ==
  IF authorization.form # "undefined" THEN authorization ELSE queryToken

\* a plausible change: a server-side token store in which a login supersedes
\* the tokens of earlier logins
CheckTokenLatestOnly(tok, t1, t2) ==
  IF \E other \in issued : other.payload.timestamp > tok.payload.timestamp
    THEN "BadSignature"
  ELSE IF tok.form # "jwt" \/ tok.sig # Sign(tok.payload, JWT_SECRET)
    THEN "BadSignature"
  ELSE IF t1 \div MsPerSec >= tok.payload.exp THEN "JwtExpired"
  ELSE IF t2 - tok.payload.timestamp > TokenMaxAgeMs THEN "Expired"
  ELSE "ok"

\* a plausible slip: the handler does not check the token
CheckTokenSkipped(tok, t1, t2) == "ok"

\* the token check of a fetch handler: jwt.verify at clock t1, the age test
\* with Date.now() read at t2 >= t1
CheckToken(tok, t1, t2) ==
  LET v == JwtVerify(tok, JWT_SECRET, t1)
  IN IF v # "ok" THEN v
     ELSE IF ~tok.payload.authenticated THEN "NotAuthenticated"
     ELSE IF t2 - tok.payload.timestamp > TokenMaxAgeMs THEN "Expired"
     ELSE "ok"

\* a plausible change: one body for every failure
TokenErrorBodyGeneric(check) == "Invalid token"

\* the body of the 401 a failed token check is answered with
TokenErrorBody(check) ==
  CASE check = "NotAuthenticated" -> "Unauthorized"
    [] check = "Expired" -> "Token expired"
    [] OTHER -> "Invalid token"

(***************************************************************************)
(* Rate limiting (express-rate-limit, in-memory store keyed by client IP). *)
(***************************************************************************)
NoHits == [count |-> 0, resetTime |-> 0]

\* a plausible slip: the expiry test counts the window width twice, so that a
\* window is taken as elapsed from its first hit on
IncrementResetsEarly(w, t, windowMs) ==
  IF w.resetTime <= t + windowMs THEN [count |-> 1, resetTime |-> t + windowMs]
  ELSE [w EXCEPT !.count = @ + 1]

\* one hit on a client's window at time t
Increment(w, t, windowMs) ==
  IF w.resetTime <= t THEN [count |-> 1, resetTime |-> t + windowMs]
  ELSE [w EXCEPT !.count = @ + 1]

\* pdfLimiter's max
PdfMax == IF variant = 1 THEN PdfMaxV1 ELSE PdfMaxV2

\* a plausible change: the fetches of /png are counted apart from those of
\* /pdf, under a key of their own
AssetKeyPerRoute(route, ip) == IF route = "png" THEN "ip2" ELSE ip

\* the key under which pdfLimiter, the one limiter of both fetch routes,
\* counts a request: the client's IP, whatever the route
AssetKey(route, ip) == ip

\* a plausible slip: the limiter counts and never denies (it is not mounted
\* in front of the routes)
LimitNeverReached(w, max) == FALSE

\* a plausible slip: >= in place of >
LimitReachedOffByOne(w, max) == w.count >= max

\* a plausible change: a request answered with an error gives its unit back
\* (skipFailedRequests: true)
ConsumesOnlySuccess(status) == status < 400

\* whether a request that pdfLimiter has counted keeps its unit of the window
\* once answered with `status`: no skip option is set, the unit is kept
Consumes(status) == TRUE

\* the limiter answers 429 when the window's count exceeds max
LimitReached(w, max) == w.count > max

\* A request is handled by the middlewares of its route one after the other:
\* each limiter awaits store.increment(key) and then compares the totalHits it
\* got with max.  Between two middlewares other requests may run.
Slots == 1..MaxInflight
Idle == [stage |-> "idle", ip |-> "none", seen |-> NoHits, totalHits |-> 0]
NoCounts == [l \in {"general", "pdf"} |-> [ip \in {"ip1", "ip2"} |-> 0]]
\* slots: the requests in flight; counted, admitted: how many requests each
\* limiter was asked about and let through, per client, from time `since` on
NoTraffic ==
  [slots |-> [s \in Slots |-> Idle], since |-> 0,
   counted |-> NoCounts, admitted |-> NoCounts]

(***************************************************************************)
(* The PNG list of a PDF (second version only).                            *)
(***************************************************************************)
RECURSIVE ParseInt(_, _)
\* parseInt of a string of decimal digits, acc the value read so far
ParseInt(acc, ds) ==
  IF ds = <<>> THEN acc
  ELSE ParseInt(acc * 10 + DigitVal(Head(ds)), Tail(ds))

\* the length of the longest run of digits that ends s
RECURSIVE TrailingDigits(_)
TrailingDigits(s) ==
  IF s = <<>> \/ s[Len(s)] \notin Digit THEN 0
  ELSE 1 + TrailingDigits(SubSeq(s, 1, Len(s) - 1))

\* file.match(/-(\d+)\.png$/)?.[1] || '0': the digits between a '-' and the
\* final ".png", or "0" when the file name has no such ending
PageDigits(file) ==
  IF ~EndsWith(file, DotPng) THEN <<"0">>
  ELSE LET stem == SubSeq(file, 1, Len(file) - Len(DotPng))
           k == TrailingDigits(stem)
       IN IF k = 0 \/ k = Len(stem) \/ stem[Len(stem) - k] # "-"
            THEN <<"0">>
          ELSE SubSeq(stem, Len(stem) - k + 1, Len(stem))

\* parseInt(file.match(/-(\d+)\.png$/)?.[1] || '0')
PageNum(file) == ParseInt(0, PageDigits(file))

RECURSIVE LexCompare(_, _)
\* the order of two digit strings as strings: <0, 0, >0
LexCompare(a, b) ==
  IF a = <<>> /\ b = <<>> THEN 0
  ELSE IF a = <<>> THEN -1
  ELSE IF b = <<>> THEN 1
  ELSE IF Head(a) # Head(b) THEN DigitVal(Head(a)) - DigitVal(Head(b))
  ELSE LexCompare(Tail(a), Tail(b))

\* a plausible slip: the page numbers compared as strings
ComparePagesLexical(a, b) == LexCompare(PageDigits(a), PageDigits(b))

\* the comparator handed to sort: aNum - bNum
ComparePages(a, b) == PageNum(a) - PageNum(b)

\* x put into a list that is sorted already, behind every element that does not
\* compare greater (Array.prototype.sort is stable)
InsertSorted(sorted, x) ==
  LET pos == Cardinality({i \in 1..Len(sorted) : ComparePages(sorted[i], x) <= 0})
  IN SubSeq(sorted, 1, pos) \o <<x>> \o SubSeq(sorted, pos + 1, Len(sorted))

RECURSIVE SortByPage(_)
\* files.sort((a, b) => aNum - bNum)
SortByPage(files) ==
  IF files = <<>> THEN <<>>
  ELSE InsertSorted(SortByPage(SubSeq(files, 1, Len(files) - 1)), files[Len(files)])

\* file.startsWith(baseName + '-') && file.endsWith('.png')
IsPngOf(file, baseName) ==
  /\ StartsWith(file, baseName \o <<"-">>)
  /\ EndsWith(file, DotPng)

\* getPngListForPdf(pdfFilename) over the directory (exists, listing)
PngListOver(pdfFilename, exists, listing) ==
  LET baseName == ReplaceFirstWithEmpty(pdfFilename, DotPdf)
      keep(file) == IsPngOf(file, baseName)
  IN IF ~exists THEN <<>>
     ELSE SortByPage(SelectSeq(listing, keep))

\* getPngListForPdf(pdfFilename) over the pngs directory as it is now
GetPngListForPdf(pdfFilename) == PngListOver(pdfFilename, pngsExists, pngsList)

(***************************************************************************)
(* JSON values of a request body, as far as the code tells them apart.     *)
(***************************************************************************)
JsUndefinedStr == [type |-> "undefined", v |-> ""]          \* password absent
JsStr(s) == [type |-> "string", v |-> s]
JsNumStr == [type |-> "number", v |-> "42"]
JsUndefinedName == [type |-> "undefined", v |-> <<>>]        \* pdfFilename absent
JsName(n) == [type |-> "string", v |-> n]
JsNumName == [type |-> "number", v |-> <<"4", "2">>]         \* pdfFilename: 42

\* whether a body value is truthy
Truthy(x) == x.type = "number" \/ (x.type = "string" /\ Len(x.v) > 0)

(***************************************************************************)
(* The record kept of the request handled last.                            *)
(***************************************************************************)
NoRate == [consulted |-> FALSE, k |-> 0, fresh |-> FALSE, admitted |-> FALSE]

RateInfo(old, new, max) ==
  [consulted |-> TRUE, k |-> new.count, fresh |-> new.resetTime # old.resetTime,
   admitted |-> ~LimitReached(new, max)]

Blank ==
  [route |-> "none", ip |-> "none", at |-> 0, ended |-> 0,
   password |-> JsUndefinedStr, isIOS |-> FALSE, pdfFilename |-> JsUndefinedName,
   token |-> MissingToken, name |-> <<>>,
   status |-> 0, body |-> "", tokenOut |-> MissingToken,
   usePngMode |-> FALSE, pngFiles |-> <<>>,
   general |-> NoRate, pdf |-> NoRate,
   check |-> "skipped", nameOk |-> "skipped", exists |-> "skipped",
   path |-> <<>>, storageOps |-> 0, stream |-> "none"]

GeneralMessage == "Too many requests from this IP, please try again later."
PdfMessage == "Too many PDF requests, please try again later."

(***************************************************************************)
(* Handlers.  Every request first passes app.use(limiter).                 *)
(***************************************************************************)
\* GET /health
Health(ip) ==
  /\ ~crashed
  /\ LET old == hits.general[ip]
         g == Increment(old, now, GeneralWindowMs)
         gi == RateInfo(old, g, GeneralMax)
         base == [Blank EXCEPT !.route = "health", !.ip = ip, !.at = now,
                               !.ended = now, !.general = gi]
     IN /\ hits' = [hits EXCEPT !.general[ip] = g]
        /\ last' = IF ~gi.admitted
                     THEN [base EXCEPT !.status = 429, !.body = GeneralMessage]
                   ELSE [base EXCEPT !.status = 200, !.body = "OK"]
  /\ UNCHANGED <<traffic, variant, env, now, ticks, issued, pdfFiles, pngsExists,
                 pngsList, unreadable, streams, crashed>>

\* POST /auth with body {password, isIOS, pdfFilename}; d is the time that
\* passes between the handler's Date.now() and the one inside jwt.sign
Login(ip, password, isIOS, pdfFilename, d) ==
  /\ ~crashed
  /\ LET old == hits.general[ip]
         g == Increment(old, now, GeneralWindowMs)
         gi == RateInfo(old, g, GeneralMax)
         base == [Blank EXCEPT !.route = "auth", !.ip = ip, !.at = now,
                               !.ended = now, !.general = gi,
                               !.password = password, !.isIOS = isIOS,
                               !.pdfFilename = pdfFilename]
         token == JwtSign(now, JWT_SECRET, now + d)
         shouldServePngs == /\ variant = 2
                            /\ env.SERVE_PNGS_FOR_IOS
                            /\ isIOS
                            /\ Truthy(pdfFilename)
         pngFiles == GetPngListForPdf(pdfFilename.v)
         ok == [base EXCEPT !.status = 200, !.body = "success",
                            !.tokenOut = token, !.ended = now + d]
         out ==
           IF ~gi.admitted
             THEN [base EXCEPT !.status = 429, !.body = GeneralMessage]
           ELSE IF password # env.PDF_PASSWORD
             THEN [base EXCEPT !.status = 401, !.body = "Invalid password"]
           ELSE IF ~shouldServePngs
             THEN ok
           ELSE IF pdfFilename.type # "string"
             \* pdfFilename.replace is not a function: the TypeError reaches
             \* the error-handling middleware
             THEN [base EXCEPT !.status = 500, !.body = "Something went wrong!",
                               !.ended = now + d]
           ELSE IF Len(pngFiles) > 0
             THEN [ok EXCEPT !.usePngMode = TRUE, !.pngFiles = pngFiles,
                             !.storageOps = IF pngsExists THEN 2 ELSE 1]
           ELSE [ok EXCEPT !.storageOps = IF pngsExists THEN 2 ELSE 1]
     IN /\ hits' = [hits EXCEPT !.general[ip] = g]
        /\ issued' = IF out.tokenOut.form = "jwt" THEN issued \cup {out.tokenOut}
                     ELSE issued
        /\ Cardinality(issued') <= MaxTokens
        /\ now' = out.ended
        /\ last' = out
  /\ UNCHANGED <<traffic, variant, env, ticks, pdfFiles, pngsExists, pngsList,
                 unreadable, streams, crashed>>

\* GET /pdf/:filename (route = "pdf") and GET /png/:filename (route = "png");
\* d is the time that passes between jwt.verify and the handler's Date.now()
Fetch(route, ip, authorization, queryToken, name, d) ==
  /\ ~crashed
  /\ LET old == hits.general[ip]
         g == Increment(old, now, GeneralWindowMs)
         gi == RateInfo(old, g, GeneralMax)
         key == AssetKey(route, ip)
         oldp == hits.pdf[key]
         p == Increment(oldp, now, PdfWindowMs)
         pi == RateInfo(oldp, p, PdfMax)
         routed == route = "pdf" \/ variant = 2
         tok == TokenFromRequest(authorization, queryToken)
         check == CheckToken(tok, now, now + d)
         dotExt == IF route = "pdf" THEN DotPdf ELSE DotPng
         sub == IF route = "pdf" THEN PdfsDir ELSE PngsDir
         path == PathJoin(Dirname, sub, name)
         base == [Blank EXCEPT !.route = route, !.ip = ip, !.at = now,
                               !.ended = now, !.general = gi,
                               !.token = tok, !.name = name]
         limited == [base EXCEPT !.pdf = pi]
         checked == [limited EXCEPT !.check = check, !.ended = now + d]
         named == [checked EXCEPT !.nameOk = "ok", !.path = path,
                                  !.storageOps = 1]
         out ==
           IF ~gi.admitted
             THEN [base EXCEPT !.status = 429, !.body = GeneralMessage]
           ELSE IF ~routed
             THEN [base EXCEPT !.status = 404, !.body = "Endpoint not found"]
           ELSE IF ~pi.admitted
             THEN [limited EXCEPT !.status = 429, !.body = PdfMessage]
           ELSE IF check # "ok"
             THEN [checked EXCEPT !.status = 401, !.body = TokenErrorBody(check)]
           ELSE IF ~FilenameMatches(name, dotExt)
             THEN [checked EXCEPT !.nameOk = "invalid", !.status = 400,
                                  !.body = "Invalid filename"]
           ELSE IF ~ExistsSync(path)
             THEN [named EXCEPT !.exists = "missing", !.status = 404,
                                !.body = IF route = "pdf" THEN "PDF not found"
                                         ELSE "PNG not found"]
           ELSE [named EXCEPT !.exists = "found", !.storageOps = 2,
                              !.stream = "pending"]
     IN /\ hits' = [hits EXCEPT !.general[ip] = g,
                                !.pdf[key] = IF gi.admitted /\ routed
                                               /\ Consumes(out.status)
                                              THEN p ELSE @]
        /\ out.stream = "pending" => Cardinality(streams) < MaxStreams
        /\ streams' = IF out.stream = "pending" THEN streams \cup {out}
                      ELSE streams
        /\ now' = out.ended
        /\ last' = out
  /\ UNCHANGED <<traffic, variant, env, ticks, issued, pdfFiles, pngsExists, pngsList,
                 unreadable, crashed>>

\* the open of a stream made by fs.createReadStream(filePath) completes: the
\* file is piped to the response, or the stream emits 'error', which nothing
\* listens to, and the process dies
StreamOpen(s) ==
  /\ ~crashed
  /\ s \in streams
  /\ streams' = streams \ {s}
  /\ IF s.path \in AllPaths /\ s.path \notin unreadable
       THEN /\ last' = [s EXCEPT !.status = 200, !.body = "file",
                                 !.stream = "streamed"]
            /\ crashed' = FALSE
       ELSE /\ last' = [s EXCEPT !.stream = "fault"]
            /\ crashed' = TRUE
  /\ UNCHANGED <<traffic, variant, env, now, ticks, hits, issued, pdfFiles, pngsExists,
                 pngsList, unreadable>>

(***************************************************************************)
(* The environment: the clock and the asset directories.                   *)
(***************************************************************************)
Tick(d) ==
  /\ ~crashed
  /\ ticks < MaxTicks
  /\ now' = now + d
  /\ ticks' = ticks + 1
  /\ UNCHANGED <<traffic, variant, env, hits, issued, pdfFiles, pngsExists, pngsList,
                 unreadable, streams, crashed, last>>

\* a file of the pdfs directory is removed
UnlinkPdf(n) ==
  /\ ~crashed
  /\ n \in pdfFiles
  /\ pdfFiles' = pdfFiles \ {n}
  /\ UNCHANGED <<traffic, variant, env, now, ticks, hits, issued, pngsExists, pngsList,
                 unreadable, streams, crashed, last>>

\* a file of the pngs directory is removed
UnlinkPng(i) ==
  /\ ~crashed
  /\ i \in 1..Len(pngsList)
  /\ pngsList' = SubSeq(pngsList, 1, i - 1) \o SubSeq(pngsList, i + 1, Len(pngsList))
  /\ UNCHANGED <<traffic, variant, env, now, ticks, hits, issued, pdfFiles, pngsExists,
                 unreadable, streams, crashed, last>>

(***************************************************************************)
(* What clients send.                                                      *)
(***************************************************************************)
Secret == JsStr("secret")
\* req.body.password: the right one, a wrong one, none, a number
Passwords == {Secret, JsStr("wrong"), JsUndefinedStr, JsNumStr}

APdf == <<"a", ".", "p", "d", "f">>
BPdf == <<"b", ".", "p", "d", "f">>
CPdf == <<"c", ".", "p", "d", "f">>
UpAPdf == <<".", ".", "/", "a", ".", "p", "d", "f">>    \* "../a.pdf"
A1Png == <<"a", "-", "1", ".", "p", "n", "g">>
A2Png == <<"a", "-", "2", ".", "p", "n", "g">>
A10Png == <<"a", "-", "1", "0", ".", "p", "n", "g">>

\* the tokens a client can make out of an issued one by altering a part of it
Altered(tok, t) ==
  {[tok EXCEPT !.payload.timestamp = t],
   [tok EXCEPT !.payload.exp = @ + ExpiresInSec],
   [tok EXCEPT !.payload.iat = @ + ExpiresInSec],
   [tok EXCEPT !.payload.authenticated = FALSE],
   [tok EXCEPT !.sig.k = AttackerKey],
   [tok EXCEPT !.payload.exp = @ + ExpiresInSec,
               !.sig = Sign([tok.payload EXCEPT !.exp = @ + ExpiresInSec],
                            AttackerKey)]} \ {tok}

\* the payload of one issued token under the signature of another
Spliced ==
  {[form |-> "jwt", payload |-> a.payload, sig |-> b.sig] :
     a \in issued, b \in issued} \ issued

\* every token a client can present at time t: none, garbage, one it signed
\* itself, the issued ones and what can be made of them
ClientTokens(t) ==
  {MissingToken, MalformedToken, JwtSign(t, AttackerKey, t)}
    \cup issued \cup Spliced \cup UNION {Altered(tok, t) : tok \in issued}

(***************************************************************************)
(* The server as a whole.                                                  *)
(***************************************************************************)
Ips == {"ip1", "ip2"}
Limiters == {"general", "pdf"}

\* the state once app.listen has returned, for a deployment: which version,
\* which environment, which files
InitWith(variants, passwords, serve, pdfs, pngDirs, unread) ==
  /\ variant \in variants
  /\ env \in [PDF_PASSWORD : passwords, SERVE_PNGS_FOR_IOS : serve]
  /\ now = 0
  /\ ticks = 0
  /\ hits = [l \in Limiters |-> [ip \in Ips |-> NoHits]]
  /\ issued = {}
  /\ pdfFiles = pdfs
  /\ \E dir \in pngDirs : pngsExists = dir.exists /\ pngsList = dir.list
  /\ unreadable \in unread
  /\ streams = {}
  /\ crashed = FALSE
  /\ traffic = NoTraffic
  /\ last = Blank

Init ==
  InitWith({1, 2}, {Secret}, BOOLEAN, {APdf, BPdf},
           {[exists |-> TRUE, list |-> <<A2Png, A1Png>>]},
           {{Dirname \o <<PdfsDir, BPdf>>}})

\* the client has made fewer than MaxReqs requests in its general window
HasBudget(ip) == hits.general[ip].count < MaxReqs

Next ==
  \/ HasBudget("ip1") /\ Health("ip1")
  \/ /\ HasBudget("ip1")
     /\ \E pw \in Passwords, ios \in BOOLEAN,
           fn \in {JsUndefinedName, JsName(APdf), JsNumName} :
          Login("ip1", pw, ios, fn, 0)
  \/ /\ HasBudget("ip1")
     /\ \E tok \in {MissingToken} \cup issued,
           name \in {APdf, BPdf, CPdf, UpAPdf} :
          Fetch("pdf", "ip1", tok, MissingToken, name, 0)
  \/ /\ HasBudget("ip1")
     /\ \E tok \in {MalformedToken} \cup issued, name \in {A1Png, APdf} :
          Fetch("png", "ip1", MissingToken, tok, name, 0)
  \/ \E s \in streams : StreamOpen(s)
  \/ \E n \in {APdf} : UnlinkPdf(n)
  \/ \E i \in {1} : UnlinkPng(i)

Spec == Init /\ [][Next]_vars

(***************************************************************************)
(* Tokens over time: logins with the right password, fetches that present  *)
(* every token a client can make, and a clock that is advanced to the      *)
(* edges of the one-hour window.                                           *)
(***************************************************************************)
InitToken ==
  InitWith({2}, {Secret}, {FALSE}, {APdf},
           {[exists |-> TRUE, list |-> <<A1Png>>]}, {{}})

\* clock advances that reach the edges: the end of a second, one millisecond
\* short of an hour, an hour
TokenSteps == {MsPerSec - 1, TokenMaxAgeMs - 1, TokenMaxAgeMs}

\* the client has made fewer than MaxTokenReqs requests in its general window
HasTokenBudget(ip) == hits.general[ip].count < MaxTokenReqs

NextToken ==
  \/ /\ HasTokenBudget("ip1")
     /\ Cardinality(issued) < MaxForged
     /\ \E d \in 0..MaxSkew : Login("ip1", Secret, FALSE, JsUndefinedName, d)
  \/ /\ HasTokenBudget("ip1")
     /\ \E tok \in ClientTokens(now), d \in 0..MaxSkew :
          Fetch("pdf", "ip1", tok, MissingToken, APdf, d)
  \/ /\ HasTokenBudget("ip1")
     /\ \E tok \in ClientTokens(now), d \in 0..MaxSkew :
          Fetch("png", "ip1", MissingToken, tok, A1Png, d)
  \/ \E s \in streams : StreamOpen(s)
  \/ \E d \in TokenSteps : Tick(d)

SpecToken == InitToken /\ [][NextToken]_vars

\* the fetch handled last, or being streamed, went past its token check
PastTokenCheck(r) == r.route \in {"pdf", "png"} /\ r.nameOk # "skipped"

\* C1: a fetch gets past the token check (to name resolution, to streaming)
\* only with a token whose signature verifies under the signing key, whose
\* authenticated flag is true and whose age is at most 3600 s; such a token is
\* one the server issued, never one made by altering an issued token.
C1_AcceptedOnlyIfValid ==
  \A r \in {last} \cup streams :
    PastTokenCheck(r) =>
      /\ r.token.form = "jwt"
      /\ r.token.sig = Sign(r.token.payload, JWT_SECRET)
      /\ r.token.payload.authenticated
      /\ r.ended - r.token.payload.timestamp <= TokenMaxAgeMs
      /\ r.token \in issued
      /\ \A tok \in issued : r.token \notin Altered(tok, r.at)

\* a fetch was accepted some time after its token was issued
C1_Witness ==
  /\ PastTokenCheck(last)
  /\ last.at > last.token.payload.timestamp

\* the fetch handled last reached its token check, which failed
TokenCheckFailed(r) ==
  r.route \in {"pdf", "png"} /\ r.check \notin {"skipped", "ok"}

\* C2 (as claimed): a token issued at time t is accepted by the token check of
\* a fetch at every time t' with t' - t <= 3600 s, 3600 s included, and is
\* rejected at every later time; the advertised expiresIn is that window.
C2_AcceptedForAdvertisedWindow ==
  (last.route \in {"pdf", "png"} /\ last.check # "skipped" /\ last.token \in issued)
    => (last.check = "ok"
          <=> last.ended - last.token.payload.timestamp
                <= AdvertisedExpiresIn * MsPerSec)

InitRate ==
  InitWith({1, 2}, {Secret}, {FALSE}, {APdf},
           {[exists |-> FALSE, list |-> <<>>]}, {{}})

\* clock advances: within a window, past the asset window, to the last
\* millisecond of the general window
RateSteps == {1, PdfWindowMs, GeneralWindowMs - 1}

\* the next hit on window w is at most MaxOver beyond the ceiling
WithinOver(w, max) == w.resetTime <= now \/ w.count < max + MaxOver

NextRate ==
  \/ /\ WithinOver(hits.general["ip1"], GeneralMax)
     /\ WithinOver(hits.pdf["ip1"], PdfMax)
     /\ Fetch("pdf", "ip1", MissingToken, MissingToken, APdf, 0)
  \/ \E d \in RateSteps : Tick(d)

SpecRate == InitRate /\ [][NextRate]_vars

\* the request handled last was answered 429 with the given limiter's message
Denied(r, message) == r.status = 429 /\ r.body = message

\* C5: for each limiter and client, the k-th request of a window is admitted
\* if and only if k <= max, else answered 429 (so at most max are admitted in
\* a window and all further ones are denied); a request that arrives once the
\* window has elapsed starts a new window, as its first request, and is
\* admitted by that limiter.
C5_WindowAdmission ==
  (last.route # "none" /\ last.stream = "none") =>
    /\ last.general.consulted
    /\ Denied(last, GeneralMessage) <=> last.general.k > GeneralMax
    /\ last.general.fresh => last.general.k = 1
    /\ last.at < hits.general[last.ip].resetTime
    /\ hits.general[last.ip].resetTime <= last.at + GeneralWindowMs
    /\ last.pdf.consulted =>
         /\ Denied(last, PdfMessage) <=> last.pdf.k > PdfMax
         /\ last.pdf.fresh => last.pdf.k = 1
         /\ last.at < hits.pdf[last.ip].resetTime
         /\ hits.pdf[last.ip].resetTime <= last.at + PdfWindowMs

\* the 11th fetch of an asset window was denied and, the window having
\* elapsed, the next fetch was admitted as the first of a new window
C5_Witness ==
  /\ variant = 1
  /\ last.route = "pdf"
  /\ last.at = PdfWindowMs
  /\ last.general.k = PdfMaxV1 + 2
  /\ last.pdf.fresh
  /\ last.pdf.k = 1
  /\ last.status # 429

\* C6 (as claimed): a client is admitted to at most 10 asset fetches per
\* 5-minute window, a ceiling strictly below the general ceiling of 100.
C6_AssetCeilingIsTen ==
  (last.route \in {"pdf", "png"} /\ last.pdf.consulted
     /\ last.pdf.k > ReadmePdfMax)
    => (last.status = 429 /\ PdfMax < GeneralMax)

(***************************************************************************)
(* File names: after one login, one fetch with any name made of a short    *)
(* run of characters, among them the separators, and an ending.            *)
(***************************************************************************)
NameAlphabet == {"a", "7", ".", "-", "/", "\\", "%"}

\* the character sequences over NameAlphabet of length at most n
RECURSIVE SeqsUpTo(_)
SeqsUpTo(n) ==
  IF n = 0 THEN {<<>>}
  ELSE LET shorter == SeqsUpTo(n - 1)
       IN shorter \cup {Append(q, c) : q \in shorter, c \in NameAlphabet}

Endings ==
  {<<>>, DotPdf, DotPng, <<".", "P", "D", "F">>, <<"p", "d", "f">>,
   DotPdf \o <<"/">>, DotPng \o <<"\\">>, DotPdf \o DotPng}

\* req.params.filename, as express hands it over (percent-decoded)
ClientNames == {q \o e : q \in SeqsUpTo(MaxPrefixLen), e \in Endings}

InitName ==
  InitWith({1, 2}, {Secret}, {FALSE}, {APdf, <<"a", "-", "7", ".", "p", "d", "f">>},
           {[exists |-> TRUE, list |-> <<<<"a", ".", "p", "n", "g">>>>]}, {{}})

\* a name is judged within one request, whatever was fetched before: the
\* client has not yet been through pdfLimiter
FirstFetch(ip) == hits.pdf[ip] = NoHits

NextName ==
  \/ HasTokenBudget("ip1") /\ Login("ip1", Secret, FALSE, JsUndefinedName, 0)
  \/ /\ HasTokenBudget("ip1") /\ FirstFetch("ip1")
     /\ \E tok \in issued, name \in ClientNames :
          Fetch("pdf", "ip1", tok, MissingToken, name, 0)
  \/ /\ HasTokenBudget("ip1") /\ FirstFetch("ip1")
     /\ variant = 2
     /\ \E tok \in issued, name \in ClientNames :
          Fetch("png", "ip1", tok, MissingToken, name, 0)
  \/ \E s \in streams : StreamOpen(s)

SpecName == InitName /\ [][NextName]_vars

\* the grammar ^[A-Za-z0-9._-]+\.<ext>$ of the data model
C3_Grammar(n, ext) ==
  \E k \in 1..Len(n) :
    /\ \A i \in 1..k : n[i] \in Lower \cup Upper \cup Digit \cup {".", "_", "-"}
    /\ SubSeq(n, k + 1, Len(n)) = <<".">> \o ext

\* C3: a fetch that passed the token check maps its name to a storage path if
\* and only if the whole name matches the grammar of its route; a name that
\* holds '/' or '\', or starts with a '..' segment, or does not end in the
\* extension, is answered 400 without touching storage; a mapped path is a
\* direct child of the route's asset directory.
C3_NameResolution ==
  \A r \in {last} \cup streams :
    (r.route \in {"pdf", "png"} /\ r.check = "ok") =>
      LET ext == IF r.route = "pdf" THEN <<"p", "d", "f">> ELSE <<"p", "n", "g">>
          dir == IF r.route = "pdf" THEN PdfsDir ELSE PngsDir
          n == r.name
      IN /\ r.path # <<>> <=> C3_Grammar(n, ext)
         /\ ~C3_Grammar(n, ext) => (r.status = 400 /\ r.storageOps = 0)
         /\ ( \/ \E i \in 1..Len(n) : n[i] \in {"/", "\\"}
              \/ Head(SplitSlash(n)) = <<".", ".">>
              \/ ~EndsWith(n, <<".">> \o ext) )
             => r.status = 400
         /\ r.path # <<>> => r.path = Dirname \o <<dir, n>>

\* a traversal attempt that ends in the right extension was answered 400
C3_Witness ==
  /\ last.route \in {"pdf", "png"}
  /\ last.check = "ok"
  /\ StartsWith(last.name, <<".", ".", "/">>)
  /\ EndsWith(last.name, IF last.route = "pdf" THEN DotPdf ELSE DotPng)
  /\ last.status = 400

(***************************************************************************)
(* Claims about the server as a whole (Spec).                              *)
(***************************************************************************)
\* C4 (as claimed): a login is answered with success and a token if and only
\* if the submitted password equals the configured one; any other password is
\* answered 401 "Invalid password" and gets no token.
C4_SuccessIffPasswordMatches ==
  last.route = "auth" =>
    /\ (last.status = 200 /\ last.tokenOut.form = "jwt")
         <=> last.password = env.PDF_PASSWORD
    /\ last.password # env.PDF_PASSWORD
         => /\ last.status = 401
            /\ last.body = "Invalid password"
            /\ last.tokenOut.form # "jwt"

\* the status the order rate -> token -> name -> existence gives a fetch
ExpectedStatus(r) ==
  IF ~r.general.admitted \/ (r.pdf.consulted /\ ~r.pdf.admitted) THEN 429
  ELSE IF r.check # "ok" THEN 401
  ELSE IF r.nameOk # "ok" THEN 400
  ELSE IF r.exists # "found" THEN 404
  ELSE 200

\* C7 (as claimed): every fetch ends in exactly one response, fixed by the
\* first failing check in the order rate, token, name, existence: 429, 401,
\* 400, 404, and else the asset is streamed (200); never no response.
C7_OneResponseByFirstFailingCheck ==
  (/\ last.route \in {"pdf", "png"}
   /\ (last.route = "png" => variant = 2)
   /\ last.stream # "pending")
    => (last.status = ExpectedStatus(last) /\ ~crashed)

\* C10 (as claimed): a fault of the storage while a fetch is handled, after
\* the token was accepted, is answered with a generic 500.
C10_StorageFaultIs500 ==
  (last.route \in {"pdf", "png"} /\ last.check = "ok" /\ last.stream = "fault")
    => (last.status = 500 /\ last.body = "Something went wrong!" /\ ~crashed)

(***************************************************************************)
(* The PNG list: logins that ask for it, over every short listing of the   *)
(* pngs directory.                                                         *)
(***************************************************************************)
A02Png == <<"a", "-", "0", "2", ".", "p", "n", "g">>
AxPng == <<"a", "-", "x", ".", "p", "n", "g">>
B1Png == <<"b", "-", "1", ".", "p", "n", "g">>
ADotPng == <<"a", ".", "p", "n", "g">>
AX5Png == <<"a", "-", "x", "-", "5", ".", "p", "n", "g">>
\* "a.pdf.b.pdf", a name that holds ".pdf" twice, and a page of its
APdfBPdf == <<"a", ".", "p", "d", "f", ".", "b", ".", "p", "d", "f">>
APdfB1Png == <<"a", ".", "p", "d", "f", ".", "b", "-", "1", ".", "p", "n", "g">>
\* "a-x.pdf", a name that begins like "a.pdf" does, followed by '-'
AXPdf == <<"a", "-", "x", ".", "p", "d", "f">>
\* the names a client asks the PNG list of
PrimaryNames == {APdf, BPdf, APdfBPdf, AXPdf}
PngUniverse ==
  {A1Png, A2Png, A10Png, A02Png, AxPng, B1Png, ADotPng, AX5Png, APdfB1Png}

\* the sequences of distinct elements of S of length at most n
RECURSIVE Listings(_, _)
Listings(S, n) ==
  IF n = 0 THEN {<<>>}
  ELSE LET shorter == Listings(S, n - 1)
           more(q) == {Append(q, f) : f \in {g \in S : \A i \in 1..Len(q) : q[i] # g}}
       IN shorter \cup UNION {more(q) : q \in shorter}

PngDirs ==
  {[exists |-> FALSE, list |-> <<>>]}
    \cup {[exists |-> TRUE, list |-> l] : l \in Listings(PngUniverse, MaxList)}

InitManifest ==
  InitWith({2}, {Secret}, {TRUE}, {APdf, BPdf}, PngDirs, {{}})

NextManifest ==
  \/ /\ HasTokenBudget("ip1")
     /\ \E fn \in PrimaryNames :
          Login("ip1", Secret, TRUE, JsName(fn), 0)
  \/ /\ HasTokenBudget("ip1")
     /\ Login("ip1", Secret, FALSE, JsName(APdf), 0)

SpecManifest == InitManifest /\ [][NextManifest]_vars

\* the place of a file in the listing of the pngs directory
ListingIndex(f) == CHOOSE i \in 1..Len(pngsList) : pngsList[i] = f

\* C9: the PNG list returned by a login is in ascending order of the page
\* numbers, compared as numbers (2 before 10), and files of equal page number
\* stay in the order of the directory listing.
C9_ManifestSortedByPage ==
  last.route = "auth" =>
    \A i, j \in 1..Len(last.pngFiles) :
      i < j =>
        /\ PageNum(last.pngFiles[i]) <= PageNum(last.pngFiles[j])
        /\ PageNum(last.pngFiles[i]) = PageNum(last.pngFiles[j])
             => ListingIndex(last.pngFiles[i]) < ListingIndex(last.pngFiles[j])

\* a listing in another order, with 2 and 10 and two files of page 2
C9_Witness ==
  /\ last.route = "auth"
  /\ last.usePngMode
  /\ pngsList = <<A10Png, A2Png, A02Png>>
  /\ last.pngFiles = <<A2Png, A02Png, A10Png>>

WindowMsOf(l) == IF l = "general" THEN GeneralWindowMs ELSE PdfWindowMs
MaxOf(l) == IF l = "general" THEN GeneralMax ELSE PdfMax

\* a plausible slip: the window is read when the request enters the
\* middleware and written back, incremented, after a yield
StoreReadStale(seen, current) == seen

\* store.increment(key) reads and writes the window in one synchronous run:
\* it works on the window as it is at that moment
StoreRead(seen, current) == current

\* the requests of a client that arrived and were not yet counted
Uncounted(ip) ==
  Cardinality({s \in Slots : /\ traffic.slots[s].ip = ip
                             /\ traffic.slots[s].stage = "general"})

\* a request from ip arrives and is handed to app.use(limiter)
Arrive(s, ip) ==
  /\ ~crashed
  /\ traffic.slots[s] = Idle
  /\ \A t \in Slots : t < s => traffic.slots[t] # Idle
  /\ traffic' = [traffic EXCEPT !.slots[s] =
                    [stage |-> "general", ip |-> ip,
                     seen |-> hits.general[ip], totalHits |-> 0]]
  /\ UNCHANGED <<variant, env, now, ticks, hits, issued, pdfFiles, pngsExists,
                 pngsList, unreadable, streams, crashed, last>>

\* limiter l runs store.increment(key) for the request in slot s
LimiterIncrement(s, l) ==
  /\ ~crashed
  /\ traffic.slots[s].stage = l
  /\ LET r == traffic.slots[s]
         w == StoreRead(r.seen, hits[l][r.ip])
         new == Increment(w, now, WindowMsOf(l))
     IN /\ hits' = [hits EXCEPT ![l][r.ip] = new]
        /\ traffic' = [traffic EXCEPT
                          !.slots[s].stage = IF l = "general" THEN "generalDecide"
                                             ELSE "pdfDecide",
                          !.slots[s].totalHits = new.count,
                          !.counted[l][r.ip] = @ + 1]
  /\ UNCHANGED <<variant, env, now, ticks, issued, pdfFiles, pngsExists,
                 pngsList, unreadable, streams, crashed, last>>

\* limiter l, resumed, compares the totalHits it got with max: 429, or next();
\* behind pdfLimiter the handler runs, here for a request without token
LimiterDecide(s, l) ==
  /\ ~crashed
  /\ traffic.slots[s].stage = (IF l = "general" THEN "generalDecide" ELSE "pdfDecide")
  /\ LET r == traffic.slots[s]
         w == [count |-> r.totalHits, resetTime |-> hits[l][r.ip].resetTime]
         info == [consulted |-> TRUE, k |-> r.totalHits, fresh |-> FALSE,
                  admitted |-> ~LimitReached(w, MaxOf(l))]
         base == [Blank EXCEPT !.route = "pdf", !.ip = r.ip, !.at = now,
                               !.ended = now, !.name = APdf]
     IN IF LimitReached(w, MaxOf(l))
          THEN /\ traffic' = [traffic EXCEPT !.slots[s] = Idle]
               /\ last' = IF l = "general"
                            THEN [base EXCEPT !.general = info, !.status = 429,
                                              !.body = GeneralMessage]
                          ELSE [base EXCEPT !.general.consulted = TRUE,
                                            !.general.admitted = TRUE,
                                            !.pdf = info, !.status = 429,
                                            !.body = PdfMessage]
        ELSE IF l = "general"
          THEN /\ traffic' = [traffic EXCEPT
                                 !.slots[s].stage = "pdf",
                                 !.slots[s].seen = hits.pdf[r.ip],
                                 !.admitted[l][r.ip] = @ + 1]
               /\ last' = last
        ELSE /\ traffic' = [traffic EXCEPT !.slots[s] = Idle,
                                             !.admitted[l][r.ip] = @ + 1]
             /\ last' = [base EXCEPT !.general.consulted = TRUE,
                                     !.general.admitted = TRUE,
                                     !.pdf = info,
                                     !.check = CheckToken(MissingToken, now, now),
                                     !.status = 401,
                                     !.body = TokenErrorBody(
                                                CheckToken(MissingToken, now, now))]
  /\ UNCHANGED <<variant, env, now, ticks, hits, issued, pdfFiles, pngsExists,
                 pngsList, unreadable, streams, crashed>>

InitConc ==
  InitWith({1, 2}, {Secret}, {FALSE}, {APdf},
           {[exists |-> FALSE, list |-> <<>>]}, {{}})

\* how many requests a client sends: one runs up to MaxOver past the asset
\* ceiling of the first version, the other sends MaxOver
ConcBudget(ip) == IF ip = "ip1" THEN PdfMaxV1 + MaxOver ELSE MaxOver

NextConc ==
  \/ \E s \in Slots, ip \in Ips :
       /\ traffic.counted.general[ip] + Uncounted(ip) < ConcBudget(ip)
       /\ Arrive(s, ip)
  \/ \E s \in Slots, l \in Limiters : LimiterIncrement(s, l)
  \/ \E s \in Slots, l \in Limiters : LimiterDecide(s, l)

SpecConc == InitConc /\ [][NextConc]_vars

\* C12: however the limiter steps of concurrent requests interleave, every
\* request a limiter is asked about is counted in its client's window (no
\* increment is lost), a limiter lets through at most max requests of a client
\* in a window, and a client's count is moved by its own requests only.
C12_AtomicRateCheck ==
  \A l \in Limiters, ip \in Ips :
    /\ hits[l][ip].count = traffic.counted[l][ip]
    /\ traffic.admitted[l][ip] <= MaxOf(l)
    /\ traffic.admitted[l][ip] <= traffic.counted[l][ip]
    /\ traffic.counted[l][ip] <= ConcBudget(ip)

\* two requests of one client at the asset ceiling at once: both counted, the
\* 10th and the 11th, neither yet answered, while the other client has been
\* counted too
C12_Witness ==
  /\ variant = 1
  /\ \E s, t \in Slots :
       /\ traffic.slots[s].stage = "pdfDecide"
       /\ traffic.slots[t].stage = "pdfDecide"
       /\ traffic.slots[s].ip = "ip1"
       /\ traffic.slots[t].ip = "ip1"
       /\ traffic.slots[s].totalHits = PdfMaxV1
       /\ traffic.slots[t].totalHits = PdfMaxV1 + 1
  /\ traffic.counted.pdf["ip2"] > 0

(***************************************************************************)
(* Bursts: one client sends its requests one after the other while the     *)
(* clock is advanced to the edges of the asset window; the tally of what   *)
(* the limiters let through is started afresh at any moment.               *)
(***************************************************************************)
NoneInFlight == \A s \in Slots : traffic.slots[s] = Idle

\* the tally is started afresh: a span of observation begins now
StartTally ==
  /\ ~crashed
  /\ NoneInFlight
  /\ traffic.counted # NoCounts
  /\ traffic' = [traffic EXCEPT !.since = now, !.counted = NoCounts,
                                !.admitted = NoCounts]
  /\ UNCHANGED <<variant, env, now, ticks, hits, issued, pdfFiles, pngsExists,
                 pngsList, unreadable, streams, crashed, last>>

InitBurst ==
  InitWith({1}, {Secret}, {FALSE}, {APdf},
           {[exists |-> FALSE, list |-> <<>>]}, {{}})

\* clock advances: within a window, to its last millisecond, past it
BurstSteps == {1, PdfWindowMs - 1, PdfWindowMs}

NextBurst ==
  \/ /\ NoneInFlight
     /\ WithinOver(hits.pdf["ip1"], PdfMax)
     /\ \E s \in Slots : Arrive(s, "ip1")
  \/ \E s \in Slots, l \in Limiters : LimiterIncrement(s, l)
  \/ \E s \in Slots, l \in Limiters : LimiterDecide(s, l)
  \/ NoneInFlight /\ \E d \in BurstSteps : Tick(d)
  \/ StartTally

SpecBurst == InitBurst /\ [][NextBurst]_vars

\* C13: of the requests of one client that arrive within a span of time as
\* long as a limiter's window, the limiter lets through at most twice its max,
\* wherever the span begins.
C13_BurstAtMostTwiceMax ==
  \A l \in Limiters, ip \in Ips :
    now - traffic.since <= WindowMsOf(l)
      => traffic.admitted[l][ip] <= 2 * MaxOf(l)

\* the burst across a window edge: twice max asset fetches let through within
\* a span as long as the window
C13_Witness ==
  /\ now - traffic.since = PdfWindowMs
  /\ traffic.admitted.pdf["ip1"] = 2 * PdfMax
  /\ hits.pdf["ip1"].count = PdfMax

(***************************************************************************)
(* Denied fetches: after at most one login, one client fetches again and   *)
(* again, without token, with a bad name, for a file that is not there,    *)
(* until the limiters answer 429.  The clock stands still.                 *)
(***************************************************************************)
InitDenied ==
  InitWith({1, 2}, {Secret}, {FALSE}, {APdf},
           {[exists |-> FALSE, list |-> <<>>]}, {{}})

NextDenied ==
  \/ /\ issued = {}
     /\ WithinOver(hits.general["ip1"], GeneralMax)
     /\ Login("ip1", Secret, FALSE, JsUndefinedName, 0)
  \/ /\ WithinOver(hits.general["ip1"], GeneralMax)
     /\ WithinOver(hits.pdf["ip1"], PdfMax)
     /\ \E tok \in {MissingToken} \cup issued, name \in {CPdf, UpAPdf} :
          Fetch("pdf", "ip1", tok, MissingToken, name, 0)

SpecDenied == InitDenied /\ [][NextDenied]_vars

\* C14: a fetch that pdfLimiter let through and that was then answered 401,
\* 400 or 404 keeps its unit of the asset window: with the clock standing
\* still, every fetch so far is counted in the window, whatever its answer,
\* and the fetch that finds the window at its ceiling is answered 429.
C14_DeniedFetchStillCounts ==
  (last.route = "pdf" /\ last.stream = "none" /\ last.general.admitted) =>
    /\ last.pdf.consulted
    /\ hits.pdf[last.ip].count = last.pdf.k
    /\ last.pdf.k = last.general.k - Cardinality(issued)
    /\ last.pdf.k > PdfMax <=> Denied(last, PdfMessage)
    /\ last.status \in {401, 400, 404, 429}

\* after PdfMax fetches that were all denied for their token, the next guess
\* is answered 429
C14_Witness ==
  /\ issued = {}
  /\ last.route = "pdf"
  /\ last.token = MissingToken
  /\ last.pdf.k = PdfMax + 1
  /\ Denied(last, PdfMessage)

(***************************************************************************)
(* The PNG list as the data model describes it (SpecManifest).             *)
(***************************************************************************)
\* the primary name with its trailing extension stripped
ClaimedBase(name) ==
  IF EndsWith(name, DotPdf) THEN SubSeq(name, 1, Len(name) - Len(DotPdf))
  ELSE name

\* file is <base>-<n>.png for some <n>, which may be empty or no number
ClaimedDerivative(file, base) ==
  /\ StartsWith(file, base \o <<"-">>)
  /\ EndsWith(file, DotPng)

\* the page of <base>-<n>.png: n as a number, 0 when n is empty or no number
ClaimedPage(file, base) ==
  LET n == SubSeq(file, Len(base) + 2, Len(file) - Len(DotPng))
  IN IF n # <<>> /\ \A i \in 1..Len(n) : n[i] \in Digit THEN ParseInt(0, n)
     ELSE 0

\* C15 (as claimed): the PNG list of a name holds exactly the listed files
\* <base>-<n>.png, base being the name with its trailing extension stripped,
\* in ascending order of n, a file whose n is missing or not a number being
\* kept and ordered as page 0; without pngs directory or without such files
\* the list is empty and the login is answered as usual.
C15_ManifestExactlyDerivatives ==
  (/\ last.route = "auth"
   /\ last.password = env.PDF_PASSWORD
   /\ last.isIOS
   /\ last.pdfFilename.type = "string")
    => LET base == ClaimedBase(last.pdfFilename.v)
           listed == {pngsList[i] : i \in 1..Len(pngsList)}
           got == last.pngFiles
       IN /\ last.status = 200
          /\ {got[i] : i \in 1..Len(got)}
               = {f \in listed : pngsExists /\ ClaimedDerivative(f, base)}
          /\ \A i, j \in 1..Len(got) :
               i < j => ClaimedPage(got[i], base) <= ClaimedPage(got[j], base)

(***************************************************************************)
(* The login path (Spec).                                                  *)
(***************************************************************************)
\* C16 (as claimed): a login whose password does not match is answered 401
\* without token, without PNG list and without a look at the pngs directory;
\* a login whose password matches always gets a token, and gets usePngMode
\* with the PNG list exactly when PNG serving is on, the client is an iOS
\* client that named a PDF, and the list is not empty.
C16_ManifestOnlyAfterCredential ==
  (last.route = "auth" /\ last.general.admitted) =>
    IF last.password # env.PDF_PASSWORD
      THEN /\ last.status = 401
           /\ last.tokenOut.form # "jwt"
           /\ ~last.usePngMode
           /\ last.pngFiles = <<>>
           /\ last.storageOps = 0
    ELSE /\ last.status = 200
         /\ last.tokenOut.form = "jwt"
         /\ last.usePngMode <=>
              /\ variant = 2
              /\ env.SERVE_PNGS_FOR_IOS
              /\ last.isIOS
              /\ Truthy(last.pdfFilename)
              /\ last.pngFiles # <<>>
         /\ last.pngFiles # <<>> => last.usePngMode

(***************************************************************************)
(* Tokens of several logins: one client logs in at different times and     *)
(* fetches with any of the tokens it holds, while the clock is advanced by *)
(* half the life of a token.                                               *)
(***************************************************************************)
InitStateless ==
  InitWith({1, 2}, {Secret}, {FALSE}, {APdf},
           {[exists |-> FALSE, list |-> <<>>]}, {{}})

\* clock advances: half an hour, an hour
StatelessSteps == {TokenMaxAgeMs \div 2, TokenMaxAgeMs}

NextStateless ==
  \/ HasBudget("ip1") /\ Login("ip1", Secret, FALSE, JsUndefinedName, 0)
  \/ /\ HasBudget("ip1")
     /\ \E tok \in issued : Fetch("pdf", "ip1", tok, MissingToken, APdf, 0)
  \/ \E s \in streams : StreamOpen(s)
  \/ \E d \in StatelessSteps : Tick(d)

SpecStateless == InitStateless /\ [][NextStateless]_vars

\* what the token itself, the key and the time say about a token
ValidAt(tok, t) ==
  /\ tok.form = "jwt"
  /\ tok.sig = Sign(tok.payload, JWT_SECRET)
  /\ tok.payload.authenticated
  /\ t \div MsPerSec < tok.payload.exp
  /\ t - tok.payload.timestamp <= TokenMaxAgeMs

\* C17: whether a fetch's token is accepted is fixed by the token, the signing
\* key and the time of the check, whatever requests came before (a later login
\* leaves the tokens of earlier logins valid until their own expiry); and no
\* request changes the environment, the files or the tokens that clients hold,
\* other than a login adding its token.
C17_TokenValidityStateless ==
  [][(last'.route \in {"auth", "pdf", "png"} /\ last' # last) =>
       /\ (last'.route # "auth" /\ last'.check # "skipped")
            => (last'.check = "ok" <=> ValidAt(last'.token, last'.at))
       /\ issued \subseteq issued'
       /\ UNCHANGED <<variant, env, pdfFiles, pngsExists, pngsList, unreadable,
                      crashed>>]_vars

\* a fetch was accepted with the token of an earlier login after a later
\* login had issued another token
C17_Witness ==
  /\ last.route = "pdf"
  /\ last.check = "ok"
  /\ \E other \in issued :
       other.payload.timestamp > last.token.payload.timestamp

(***************************************************************************)
(* Deployments with and without PDF_PASSWORD: logins with every kind of    *)
(* password, and fetches with the tokens they got.                         *)
(***************************************************************************)
InitUnconfigured ==
  InitWith({1, 2}, {Secret, JsUndefinedStr}, BOOLEAN, {APdf},
           {[exists |-> TRUE, list |-> <<A1Png>>]}, {{}})

NextUnconfigured ==
  \/ /\ HasBudget("ip1")
     /\ \E pw \in Passwords, ios \in BOOLEAN, fn \in {JsUndefinedName, JsName(APdf)} :
          Login("ip1", pw, ios, fn, 0)
  \/ /\ HasBudget("ip1")
     /\ \E tok \in {MissingToken} \cup issued, name \in {APdf, CPdf} :
          Fetch("pdf", "ip1", tok, MissingToken, name, 0)
  \/ \E s \in streams : StreamOpen(s)

SpecUnconfigured == InitUnconfigured /\ [][NextUnconfigured]_vars

\* C18 (as claimed): a login without password, or with a password other than
\* the configured one, gets no token, whether or not PDF_PASSWORD is set.
C18_NoTokenWithoutPassword ==
  (/\ last.route = "auth"
   /\ \/ last.password.type = "undefined"
      \/ last.password # env.PDF_PASSWORD)
    => /\ last.tokenOut.form # "jwt"
       /\ last.status \in {401, 429}

(***************************************************************************)
(* Password guessing: one client logs in again and again, with the right   *)
(* password and with a wrong one, past the ceiling of the general limiter  *)
(* and into the next window.                                               *)
(***************************************************************************)
InitGuess ==
  InitWith({1, 2}, {Secret}, {FALSE}, {APdf},
           {[exists |-> FALSE, list |-> <<>>]}, {{}})

NextGuess ==
  \/ /\ WithinOver(hits.general["ip1"], GeneralMax)
     /\ \E pw \in {Secret, JsStr("wrong")} :
          Login("ip1", pw, FALSE, JsUndefinedName, 0)
  \/ \E d \in {GeneralWindowMs} : Tick(d)

SpecGuess == InitGuess /\ [][NextGuess]_vars

\* C19: the general limiter answers a login before the password is looked
\* at: the k-th request of a client's 15-minute window gets to the password
\* comparison (and is answered 200 or 401) if and only if k <= 100; every
\* later login of the window is answered 429 and gets no token, whether its
\* password is right or wrong.
C19_LoginsRateLimitedFirst ==
  last.route = "auth" =>
    /\ last.general.consulted
    /\ hits.general[last.ip].count = last.general.k
    /\ last.general.k <= GeneralMax =>
         /\ last.password = env.PDF_PASSWORD => last.status = 200
         /\ last.password # env.PDF_PASSWORD => last.status = 401
    /\ last.general.k > GeneralMax =>
         /\ Denied(last, GeneralMessage)
         /\ last.tokenOut.form # "jwt"

\* the login after the hundredth of a window came with the right password
\* and was answered 429
C19_Witness ==
  /\ last.route = "auth"
  /\ last.password = env.PDF_PASSWORD
  /\ last.general.k = GeneralMax + 1
  /\ last.status = 429

(***************************************************************************)
(* The two limiters of a fetch (second version): one client fetches PDFs   *)
(* and PNGs, without token, until the limiters answer 429, while the       *)
(* general window elapses.                                                 *)
(***************************************************************************)
InitShared ==
  InitWith({2}, {Secret}, {FALSE}, {APdf},
           {[exists |-> TRUE, list |-> <<A1Png>>]}, {{}})

\* clock advances: to the last millisecond of the general window, past it
SharedSteps == {GeneralWindowMs - 1, 1}

NextShared ==
  \/ /\ WithinOver(hits.general["ip1"], GeneralMax)
     /\ WithinOver(hits.pdf["ip1"], PdfMax)
     /\ Fetch("pdf", "ip1", MissingToken, MissingToken, APdf, 0)
  \/ /\ WithinOver(hits.general["ip1"], GeneralMax)
     /\ WithinOver(hits.pdf["ip1"], PdfMax)
     /\ Fetch("png", "ip1", MissingToken, MissingToken, A1Png, 0)
  \/ \E d \in SharedSteps : Tick(d)

SpecShared == InitShared /\ [][NextShared]_vars

\* the count of window w after one more hit at time t
Hit(w, t) == IF w.resetTime <= t THEN 1 ELSE w.count + 1

\* C20: a fetch of /pdf and a fetch of /png of one client are counted in the
\* client's general window and, if that admits the fetch, in one and the same
\* asset window; the fetch goes on to its handler only if both windows admit
\* it; a fetch the general window denies leaves the asset window as it was.
C20_SharedAssetWindow ==
  [][(last' # last /\ last'.route \in {"pdf", "png"}) =>
       LET ip == last'.ip
           t == last'.at
       IN /\ hits'.general[ip].count = Hit(hits.general[ip], t)
          /\ IF hits'.general[ip].count <= GeneralMax
               THEN /\ hits'.pdf[ip].count = Hit(hits.pdf[ip], t)
                    /\ last'.status # 429 <=> hits'.pdf[ip].count <= PdfMax
             ELSE /\ hits'.pdf = hits.pdf
                  /\ Denied(last', GeneralMessage)]_vars

\* a PNG fetch was denied by the asset window that PDF fetches had filled
C20_Witness ==
  /\ last.route = "png"
  /\ Denied(last, PdfMessage)
  /\ last.pdf.k = PdfMax + 1
  /\ last.general.admitted

(***************************************************************************)
(* The PNG lists of different names (SpecManifest).                        *)
(***************************************************************************)
\* file is a page of the PDF `name`: <base>-<n>.png with n a number
NamedAfter(file, name) ==
  LET base == ClaimedBase(name)
      n == SubSeq(file, Len(base) + 2, Len(file) - Len(DotPng))
  IN /\ ClaimedDerivative(file, base)
     /\ n # <<>>
     /\ \A i \in 1..Len(n) : n[i] \in Digit

\* C21 (as claimed): the PNG list of a name holds no file that is a page of
\* another name, so that the lists of two different names are disjoint.
C21_ManifestsDisjoint ==
  (last.route = "auth" /\ last.usePngMode) =>
    \A other \in PrimaryNames \ {last.pdfFilename.v} :
      /\ \A i \in 1..Len(last.pngFiles) : ~NamedAfter(last.pngFiles[i], other)
      /\ \A i \in 1..Len(last.pngFiles), j \in 1..Len(GetPngListForPdf(other)) :
           last.pngFiles[i] # GetPngListForPdf(other)[j]

(***************************************************************************)
(* A fetch against a changing asset directory (Spec).                      *)
(***************************************************************************)
\* C22 (as claimed): a fetch whose file was there at the existence check is
\* streamed in full, whatever happens to the directory meanwhile: the removal
\* of the file before the stream is opened leaves the fetch neither without
\* response nor in an unhandled failure.
C22_FoundAlwaysStreamed ==
  (/\ last.route \in {"pdf", "png"}
   /\ last.exists = "found"
   /\ last.stream # "pending"
   /\ last.path \notin unreadable)
    => /\ last.stream = "streamed"
       /\ last.status = 200
       /\ ~crashed

====
